---- MODULE Spec2Model ----
(***************************************************************************)
(* hyprsunset-tray: a tray front end supervising one external daemon       *)
(* ("hyprsunset -t <kelvin>") through QProcess.  The model follows         *)
(* src/hyprsunset-tray.py: HyprsunsetController, HyprsunsetTray and the    *)
(* process / timer events the Qt event loop delivers to them.              *)
(***************************************************************************)
EXTENDS Integers, Sequences, FiniteSets, TLC

(* ---------------------------------------------------------------- bounds *)
\* QProcess objects the controller may create in one run.
MaxSpawns == 2
\* QTimer.singleShot restart timers that may be pending at once.
MaxTimers == 1
\* Launches of the application that may be running at once.
MaxInstances == 2

(* ------------------------------------------------------ program constants *)
MIN_TEMP == 2000
MAX_TEMP == 6000
\* Values the 'temperature' key of the settings store may hold at launch:
\* the store is a user-editable file, line 20 reads it as any int.
PersistedTemps == {4000, 7500}
\* Arguments set_temperature is called with.
Kelvins == {1000, 3050, 7500}
\* self.process is None
None == 0

VARIABLES
    phase,        \* "init" before main() built controller and tray, then "up"
    instances,    \* launches of the application that built a controller and a tray
    process,      \* HyprsunsetController.process: index into procs, or None
    procs,        \* every QProcess created so far (all are children of the controller)
    temperature,  \* HyprsunsetController._temperature
    timers,       \* pending QTimer.singleShot(50, self.start) callbacks
    settings,     \* SETTINGS: [temperature, enabled]
    tray,         \* HyprsunsetTray presentation: [icon, toggle_text, tooltip, temp_enabled]
    emitted,      \* history: every state_changed emission, in order
    ret,          \* history: what the last start() returned ("True"/"False"/"None")
    last,         \* history: the last operation, set_temperature's argument, and
                  \* whether is_running held before the operation
    want          \* history: set_temperature ran while running, and since then no
                  \* other call was made, no start failed and no process died unkilled

vars == <<phase, instances, process, procs, temperature, timers, settings, tray, emitted, ret, last, want>>

\* The program state as one value, so that handlers compose as in the code.
S ==
    [process |-> process, procs |-> procs, temperature |-> temperature,
     timers |-> timers, settings |-> settings, tray |-> tray,
     emitted |-> emitted, ret |-> ret]

Apply(s) ==
    /\ process' = s.process
    /\ procs' = s.procs
    /\ temperature' = s.temperature
    /\ timers' = s.timers
    /\ settings' = s.settings
    /\ tray' = s.tray
    /\ emitted' = s.emitted
    /\ ret' = s.ret

Range(q) == {q[i] : i \in 1..Len(q)}

Min(a, b) == IF a <= b THEN a ELSE b
Max(a, b) == IF a >= b THEN a ELSE b

(* ------------------------------------------------- HyprsunsetController *)

\* line 46: self.process is not None and self.process.state() == Running
is_running(s) ==
    s.process # None /\ s.procs[s.process].state = "Running"

\* clamp that also snaps to the slider's step of 100
clamp_snapped(kelvin) == Max(MIN_TEMP, Min(MAX_TEMP, (kelvin \div 100) * 100))

\* line 53: max(MIN_TEMP, min(MAX_TEMP, kelvin))
clamp(kelvin) == Max(MIN_TEMP, Min(MAX_TEMP, kelvin))

\* HyprsunsetTray._icon_for_state (the themed icon's name stands for the icon)
_icon_for_state(running) ==
    IF running THEN "weather-clear-night" ELSE "weather-clear"

\* HyprsunsetTray._on_controller_state_changed, the slot of state_changed
_on_controller_state_changed(s, running) ==
    [s EXCEPT !.tray = [icon |-> _icon_for_state(running),
                        toggle_text |-> IF running THEN "Disable Hyprsunset"
                                                   ELSE "Enable Hyprsunset",
                        tooltip |-> s.temperature,
                        temp_enabled |-> running],
              !.settings.enabled = running]

\* self.state_changed.emit(running): the connected slot runs synchronously
emit(s, running) ==
    _on_controller_state_changed([s EXCEPT !.emitted = Append(@, running)], running)

\* line 62-69: a new QProcess replaces the handle; the previous QProcess stays a
\* child of the controller with its signals connected.  st is the state the
\* QProcess is in when waitForStarted(1000) returns, ok what it returned.
spawn(s, st, ok) ==
    [s EXCEPT !.procs = Append(@, [state |-> st, args |-> s.temperature,
                                   sigs |-> <<>>, ok |-> ok]),
              !.process = Len(s.procs) + 1]

\* start without the early return of lines 59-60
start_always_spawns(s) ==
    {emit([spawn(s, "Running", TRUE) EXCEPT !.ret = "True"], TRUE)}
    \cup {[spawn(s, st, FALSE) EXCEPT !.ret = "False"] :
             st \in {"Starting", "NotRunning"}}

\* HyprsunsetController.start: the set of states it may return in.
\* waitForStarted(1000) returns true (process Running), or false because the
\* launch failed (NotRunning) or because 1000ms passed (still Starting).
start(s) ==
    IF is_running(s)
    THEN {[s EXCEPT !.ret = "True"]}
    ELSE {emit([spawn(s, "Running", TRUE) EXCEPT !.ret = "True"], TRUE)}
         \cup {[spawn(s, st, FALSE) EXCEPT !.ret = "False"] :
                  st \in {"Starting", "NotRunning"}}

\* HyprsunsetController._on_finished, the slot of QProcess.finished
_on_finished(s) == emit(s, FALSE)

\* QProcess p is seen to have exited: state NotRunning, finished is emitted.
\* The child is gone and with it the signals that were pending on it.
finished(s, p) ==
    _on_finished([s EXCEPT !.procs[p].state = "NotRunning",
                           !.procs[p].sigs = <<>>])

\* QProcess.kill(): SIGKILL is sent; the QProcess stays Running until the
\* event loop (or a waitForFinished) sees the exit.  sigs lists the signals
\* sent to a child whose exit has not been seen yet.
kill(s, p) ==
    [s EXCEPT !.procs[p].sigs =
        IF "KILL" \in Range(@) THEN @ ELSE Append(@, "KILL")]

\* stop that tests the handle alone, not the process state
stop_handle_only(s) ==
    IF s.process = None
    THEN {s}
    ELSE {finished(s, s.process), kill(s, s.process)}

\* HyprsunsetController.stop: waitForFinished(1000) either sees the process
\* exit (finished is emitted inside the wait) or times out and kill() follows.
stop(s) ==
    IF ~is_running(s) \/ s.process = None
    THEN {s}
    ELSE {finished(s, s.process), kill(s, s.process)}

\* HyprsunsetController._restart
_restart(s) ==
    {[s2 EXCEPT !.timers = @ + 1] : s2 \in stop(s)}

\* set_temperature without the is_running test of line 55
set_temperature_always_restarts(s, kelvin) ==
    _restart([s EXCEPT !.temperature = clamp(kelvin),
                       !.settings.temperature = clamp(kelvin)])

\* set_temperature without the SETTINGS.setValue of line 54
set_temperature_not_persisted(s, kelvin) ==
    LET s1 == [s EXCEPT !.temperature = clamp(kelvin)]
    IN  IF is_running(s1) THEN _restart(s1) ELSE {s1}

\* HyprsunsetController.set_temperature
set_temperature(s, kelvin) ==
    LET s1 == [s EXCEPT !.temperature = clamp(kelvin),
                        !.settings.temperature = clamp(kelvin)]
    IN  IF is_running(s1) THEN _restart(s1) ELSE {s1}

(* ------------------------------------------------------- HyprsunsetTray *)

\* HyprsunsetTray._toggle
_toggle(s) ==
    IF is_running(s) THEN stop(s) ELSE start(s)

\* HyprsunsetTray.__init__, lines 159-163
tray_init(s) ==
    LET s1 == _on_controller_state_changed(s, is_running(s))
    IN  IF s1.settings.enabled THEN start(s1) ELSE {s1}

(* ------------------------------------------------------------- actions *)

\* A start() that spawns is allowed while fewer than n QProcess objects exist.
CanStartWithin(n) == is_running(S) \/ Len(procs) < n

CanStart == CanStartWithin(MaxSpawns)

Op(name, k) == [op |-> name, k |-> k, wasRunning |-> is_running(S)]

Init ==
    /\ phase = "init"
    /\ instances = 0
    /\ process = None
    /\ procs = <<>>
    /\ settings \in [temperature : PersistedTemps, enabled : BOOLEAN]
    /\ temperature = settings.temperature      \* DEFAULT_TEMP, lines 20 and 42
    /\ timers = 0
    /\ tray = [icon |-> "", toggle_text |-> "Enable Hyprsunset",
               tooltip |-> 0, temp_enabled |-> TRUE]
    /\ emitted = <<>>
    /\ ret = "None"
    /\ last = [op |-> "none", k |-> 0, wasRunning |-> FALSE]
    /\ want = FALSE

\* main(), lines 211-213: connectToServer("hyprsunset_tray") and
\* waitForConnected(200), with n instances of the application running.  The
\* connection is made to a QLocalServer listening under that name; no
\* instance opens one, so the wait times out whatever n is.
waitForConnected(n) == FALSE

\* main(): the guard, then HyprsunsetController() and HyprsunsetTray(controller)
Main ==
    /\ phase = "init"
    /\ ~waitForConnected(instances)
    /\ phase' = "up"
    /\ instances' = instances + 1
    /\ \E s2 \in tray_init(S) : Apply(s2)
    /\ last' = Op("main", 0)
    /\ want' = FALSE

\* controller.start() called by a user of the controller
StartWithin(n) ==
    /\ phase = "up"
    /\ CanStartWithin(n)
    /\ \E s2 \in start(S) : Apply(s2)
    /\ last' = Op("start", 0)
    /\ want' = FALSE
    /\ UNCHANGED <<phase, instances>>

Start == StartWithin(MaxSpawns)

\* controller.stop() called by a user of the controller
Stop ==
    /\ phase = "up"
    /\ \E s2 \in stop(S) : Apply(s2)
    /\ last' = Op("stop", 0)
    /\ want' = FALSE
    /\ UNCHANGED <<phase, instances>>

\* TempDialog.closeEvent / any caller: controller.set_temperature(kelvin)
SetTemperature(kelvin) ==
    /\ phase = "up"
    /\ is_running(S) => timers < MaxTimers
    /\ \E s2 \in set_temperature(S, kelvin) : Apply(s2)
    /\ last' = Op("set_temperature", kelvin)
    /\ want' = is_running(S)
    /\ UNCHANGED <<phase, instances>>

\* the tray's toggle action or a click on the icon
ToggleWithin(n) ==
    /\ phase = "up"
    /\ CanStartWithin(n)
    /\ \E s2 \in _toggle(S) : Apply(s2)
    /\ last' = Op("toggle", 0)
    /\ want' = FALSE
    /\ UNCHANGED <<phase, instances>>

Toggle == ToggleWithin(MaxSpawns)

\* a restart timer fires: QTimer.singleShot(50, self.start)
TimerFireWithin(n) ==
    /\ phase = "up"
    /\ timers > 0
    /\ CanStartWithin(n)
    /\ \E s2 \in start([S EXCEPT !.timers = @ - 1]) :
          /\ Apply(s2)
          /\ want' = (want /\ s2.ret = "True")
    /\ last' = Op("timer", 0)
    /\ UNCHANGED <<phase, instances>>

TimerFire == TimerFireWithin(MaxSpawns)

\* the event loop sees a launching QProcess start (after start() gave up waiting)
ProcStarted(p) ==
    /\ procs[p].state = "Starting"
    /\ procs' = [procs EXCEPT ![p].state = "Running"]
    /\ last' = Op("started", 0)
    /\ UNCHANGED <<phase, instances, process, temperature, timers, settings, tray, emitted, ret, want>>

\* the event loop sees a launching QProcess fail: errorOccurred, no finished
ProcFailedToStart(p) ==
    /\ procs[p].state = "Starting"
    /\ procs' = [procs EXCEPT ![p].state = "NotRunning"]
    /\ last' = Op("failed", 0)
    /\ UNCHANGED <<phase, instances, process, temperature, timers, settings, tray, emitted, ret, want>>

\* the event loop sees a running QProcess exit (killed by stop(), killed
\* externally, crashed or exited on its own): finished is emitted
ProcExit(p) ==
    /\ procs[p].state = "Running"
    /\ Apply(finished(S, p))
    /\ last' = Op("exit", 0)
    /\ want' = (want /\ "KILL" \in Range(procs[p].sigs))
    /\ UNCHANGED <<phase, instances>>

Next ==
    \/ Main
    \/ Start
    \/ Stop
    \/ \E kelvin \in Kelvins : SetTemperature(kelvin)
    \/ Toggle
    \/ TimerFire
    \/ \E p \in DOMAIN procs : ProcStarted(p)
    \/ \E p \in DOMAIN procs : ProcFailedToStart(p)
    \/ \E p \in DOMAIN procs : ProcExit(p)

Spec == Init /\ [][Next]_vars

\* main() run again while the application is up: it returns early when the
\* guard finds a running instance, and builds its own controller and tray
\* otherwise (only their number is kept).
SecondLaunch ==
    /\ phase = "up"
    /\ instances < MaxInstances
    /\ instances' = IF waitForConnected(instances) THEN instances
                                                   ELSE instances + 1
    /\ UNCHANGED <<phase, process, procs, temperature, timers, settings, tray,
                   emitted, ret, last, want>>

NextLaunch == Next \/ SecondLaunch

SpecLaunch == Init /\ [][NextLaunch]_vars

\* The same program with room for one more QProcess, for the runs that need
\* a start, a failed start and a further start.
DeepStart == StartWithin(MaxSpawns + 1)

DeepToggle == ToggleWithin(MaxSpawns + 1)

DeepTimerFire == TimerFireWithin(MaxSpawns + 1)

NextDeep ==
    \/ Main
    \/ DeepStart
    \/ Stop
    \/ \E kelvin \in Kelvins : SetTemperature(kelvin)
    \/ DeepToggle
    \/ DeepTimerFire
    \/ \E p \in DOMAIN procs : ProcStarted(p)
    \/ \E p \in DOMAIN procs : ProcFailedToStart(p)
    \/ \E p \in DOMAIN procs : ProcExit(p)

SpecDeep == Init /\ [][NextDeep]_vars

(* -------------------------------------------------------------- claims *)

\* QProcess objects whose child is launching or running
Live == {p \in DOMAIN procs : procs[p].state \in {"Starting", "Running"}}

\* the handle refers to a running process (read off the variables)
HandleRunning == process # None /\ procs[process].state = "Running"

Killed(p) == "KILL" \in Range(procs[p].sigs)

\* nothing is pending: no restart timer, no launching child, no killed child
\* whose exit the event loop has yet to see
Quiescent ==
    /\ timers = 0
    /\ \A p \in DOMAIN procs :
          /\ procs[p].state # "Starting"
          /\ ~(procs[p].state = "Running" /\ Killed(p))

\* C1: in every reachable state at most one child process spawned by the
\* controller is live (starting or running).
C1_AtMostOneLiveChild == Cardinality(Live) <= 1

\* C2: once set_temperature(k) ran on a running controller and everything
\* pending has settled (no further call, no failed launch, no crash), the
\* daemon runs with the new temperature as its argument, and the last two
\* notifications are state_changed(false), state_changed(true).
C2_RestartAppliesTemperature ==
    (want /\ Quiescent) =>
        /\ HandleRunning
        /\ procs[process].args = temperature
        /\ Len(emitted) >= 2
        /\ emitted[Len(emitted) - 1] = FALSE
        /\ emitted[Len(emitted)] = TRUE

\* C3: a child is force-killed only after graceful termination was requested
\* of it: the first signal stop() sends a child is TERM, KILL only follows.
C3_GracefulBeforeKill ==
    \A p \in DOMAIN procs : Killed(p) => procs[p].sigs[1] = "TERM"

\* C4: the state_changed notifications alternate true, false, true, ...
\* beginning with true.
C4_NotificationsAlternate ==
    \A i \in 1..Len(emitted) : emitted[i] = (i % 2 = 1)

\* C5: start() on a running controller returns true and changes nothing
\* else: no spawn, no new handle, no notification.
C5_StartWhileRunningIsNoOp ==
    [][(last'.op = "start" /\ HandleRunning) =>
          /\ ret' = "True"
          /\ UNCHANGED <<process, procs, emitted, settings, tray, temperature, timers>>]_vars

C5_Witness ==
    /\ last.op = "start"
    /\ last.wasRunning
    /\ ret = "True"
    /\ HandleRunning
    /\ Len(procs) = 1

\* C6: a start() that failed returned false and left the controller stopped:
\* is_running is false after it, and the child of a failed attempt is never
\* running, then or later.
C6_FailedStartLeavesStopped ==
    /\ (last.op \in {"start", "toggle", "timer"} /\ ret = "False") => ~HandleRunning
    /\ \A p \in DOMAIN procs : ~procs[p].ok => procs[p].state # "Running"

\* C7: once stop() has completed on a running controller, is_running reads
\* false.
C7_StopCompletedMeansNotRunning ==
    (last.op = "stop" /\ last.wasRunning) => ~HandleRunning

\* clamp written out by cases: below the range, above it, inside it
Clamped(t) == IF t < 2000 THEN 2000 ELSE IF t > 6000 THEN 6000 ELSE t

\* C8: after set_temperature(t) the controller's temperature and the
\* persisted 'temperature' setting both equal max(2000, min(6000, t)),
\* with no snapping to multiples of 100.
C8_SetTemperatureStoresClamp ==
    last.op = "set_temperature" =>
        /\ temperature = Clamped(last.k)
        /\ settings.temperature = Clamped(last.k)

C8_Witness ==
    /\ last.op = "set_temperature"
    /\ last.k = 3050
    /\ temperature = 3050
    /\ settings.temperature = 3050

\* C9: every spawn passes a temperature in [2000, 6000].
C9_SpawnArgsInRange ==
    \A p \in DOMAIN procs : procs[p].args \in MIN_TEMP..MAX_TEMP

\* C10: stop() on a controller that is not running changes nothing: no
\* notification, no signal to any process, the handle, the temperature and
\* the persisted settings as they were.
C10_StopWhileStoppedIsNoOp ==
    [][(last'.op = "stop" /\ ~HandleRunning) =>
          UNCHANGED <<process, procs, emitted, settings, tray, temperature, timers, ret>>]_vars

C10_Witness ==
    /\ last.op = "stop"
    /\ ~last.wasRunning
    /\ process # None
    /\ procs[process].state = "Starting"

\* the calls a user makes that may start the daemon
UserStart == {"start", "toggle"}

\* C11 (as claimed): after set_temperature ran on a stopped controller, the
\* controller stays stopped until a user start.  Stated for the step that
\* follows the call, in runs where no start attempt has failed.
C11_StoppedUntilUserStart ==
    [][(/\ last.op = "set_temperature"
        /\ ~last.wasRunning
        /\ ~HandleRunning
        /\ \A p \in DOMAIN procs : procs[p].ok) =>
          (HandleRunning' => last'.op \in UserStart)]_vars

\* C11 (amended): set_temperature(k) on a controller that is not running
\* stores the clamped value in memory and in the settings and does nothing
\* else: no spawn, no signal, no new handle, no restart timer, no
\* notification; is_running is still false when it returns.
C11_SetTemperatureWhileStoppedOnlyPersists ==
    [][(last'.op = "set_temperature" /\ ~HandleRunning) =>
          /\ temperature' = Clamped(last'.k)
          /\ settings' = [settings EXCEPT !.temperature = Clamped(last'.k)]
          /\ UNCHANGED <<process, procs, timers, emitted, tray, ret>>]_vars

C11_Witness ==
    /\ last.op = "set_temperature"
    /\ ~last.wasRunning
    /\ last.k = 7500
    /\ settings.temperature = 6000
    /\ temperature = 6000
    /\ ~HandleRunning
    /\ timers = 0

\* the calls a user makes on the controller or the tray
UserAction == {"start", "stop", "toggle", "set_temperature"}

\* a start() that had to spawn has just returned False
StartJustFailed ==
    /\ last.op \in {"start", "toggle", "timer"}
    /\ ~last.wasRunning
    /\ ret = "False"

\* C12: right after a start() attempt has failed, the next spawn attempt
\* comes from a new user action, never from the controller or the tray
\* themselves (a pending restart timer included).
C12_NoSpawnAfterFailedStart ==
    [][StartJustFailed =>
          (Len(procs') > Len(procs) => last'.op \in UserAction)]_vars

\* C13: at most one instance of the application has a controller and a
\* tray: a second launch finds the first through 'hyprsunset_tray' and exits.
C13_SingleInstance == instances <= 1

\* C14: when the persisted 'enabled' setting is true at launch, building the
\* tray calls controller.start() (start() has returned something by the
\* time main() has built the tray).
C14_EnabledStartsDaemonAtLaunch ==
    [][(phase = "init" /\ phase' = "up" /\ settings.enabled) =>
          ret' # "None"]_vars

\* the tray's toggle has just stopped the daemon and its exit has been seen
ToggledOff ==
    /\ last.op = "toggle"
    /\ last.wasRunning
    /\ ~HandleRunning

\* C15: once the user has disabled the daemon with the toggle and the
\* process has exited, no process is spawned without a new user action; a
\* restart timer still pending from an earlier set_temperature spawns none.
C15_ToggleOffStaysOff ==
    [][ToggledOff =>
          (Len(procs') > Len(procs) => last'.op \in UserAction)]_vars

\* C16: in every quiescent state of the running application the tray agrees
\* with the controller: the persisted 'enabled' setting, the toggle label
\* being 'Disable Hyprsunset' and the temperature action being enabled are
\* each true exactly when is_running is true.
C16_TrayAgreesWithController ==
    (phase = "up" /\ Quiescent) =>
        /\ settings.enabled = HandleRunning
        /\ (tray.toggle_text = "Disable Hyprsunset") = HandleRunning
        /\ tray.temp_enabled = HandleRunning

\* C17: the persisted 'temperature' setting equals the controller's
\* temperature in every reachable state, and the temperature changes only in
\* a set_temperature call: start, stop, toggle, timer and process events
\* leave it as it is.
C17_TemperatureOnlyBySetTemperature ==
    /\ [](settings.temperature = temperature)
    /\ [][temperature' # temperature => last'.op = "set_temperature"]_vars

\* a restart has gone through (stop, exit, timer, start) after a
\* set_temperature and the value it stored is still there
C17_Witness ==
    /\ last.op = "timer"
    /\ Len(procs) = 2
    /\ HandleRunning
    /\ temperature = 3050
    /\ settings.temperature = 3050
    /\ procs[1].args # 3050

\* C18: a handle is held only while its child process is live (launching or
\* running); once the controller is stopped with no live child, after a
\* failed start or after the child has exited, the handle is None.
C18_HandleOnlyWhileLive ==
    process # None => process \in Live

====
